---- MODULE Spec2Model ----
(***************************************************************************)
(* The credential-and-session authentication subsystem of the server:     *)
(* authentication.service.ts (the service object and the /auth router).   *)
(*                                                                         *)
(* A request handler is an async function: it runs atomically from one    *)
(* `await` to the next, so each handler is one action per segment between *)
(* awaits.  A service call that the handler does NOT await (createUser,   *)
(* createToken, deleteToken) only starts the storage operation: the       *)
(* operation is put in `pending` and the storage layer executes it in a   *)
(* later step, after the handler has gone on to send its response.        *)
(***************************************************************************)
EXTENDS Integers, FiniteSets, Sequences, Bags, TLC

\* ------------------------------------------------------------ inputs
\* The (login, password) pairs a request body can carry.
Credentials == {<<"alice", "pw1">>, <<"alice", "pw2">>, <<"bob", "pw1">>}
Clients == {"c1", "c2"}
Salts == {"s1"}
\* The identity payloads the token signer is exercised on.
Payloads == {[id |-> 1, login |-> "alice"], [id |-> 2, login |-> "bob"]}

\* Requests started in one behaviour, and clock advances in one behaviour.
MaxRequests == 4
MaxTicks == 1
\* Token pairs signed in one behaviour of the signer, and how many seconds past the
\* access lifetime its clock is stepped tick by tick.
MaxSigned == 2
SlackSeconds == 2
\* Resolution of the wall clock (Date.now()) in ticks per second.
TicksPerSec == 2

\* expiresIn: `10s` and `15d`, in seconds
AccessLifetime == 10
RefreshLifetime == 1296000
\* bcrypt.hash(password, 10)
SaltRounds == 10

VARIABLES
    users,        \* the User table: rows [id, login, password]
    nextUserId,   \* the User table's generated primary key
    tokens,       \* the Token table (Session Registry): rows [id, token, user_id, sid]
    nextTokenId,  \* the Token table's generated primary key
    pending,      \* bag of storage operations started and not awaited, not yet executed
    handler,      \* per client: the handler suspended at an await, or idle (overlap: the
                  \* refresh tokens emitted to logins of the same user while it waited,
                  \* less those a logout has been asked to delete)
    response,     \* the response sent by the last step (op = "none" when it sent none)
    now,          \* the wall clock, in ticks
    nreq,         \* requests started so far
    nticks,       \* clock advances so far
    issued,       \* history: [sid, cookies], the cookies that the login of client sid was sent
    registered,   \* history: the [login, password] pairs whose register was answered with success
    loggedOut,    \* history: the [token, user_id] pairs whose logout was answered with success
    rejections    \* history: what rejected logins answered, by the reason of the rejection

vars == <<users, nextUserId, tokens, nextTokenId, pending, handler, response,
          now, nreq, nticks, issued, registered, loggedOut, rejections>>

\* ------------------------------------------------------------ null values
NoHash == [salt |-> "", cost |-> 0, digest |-> <<"", "">>]
NoUser == [id |-> 0, login |-> "", password |-> NoHash]
NoPayload == [id |-> 0, login |-> "", iat |-> 0, exp |-> 0]
NoToken == [payload |-> NoPayload, sig |-> [key |-> "", msg |-> NoPayload]]
NoCookies == [accessToken |-> NoToken, refreshToken |-> NoToken,
              login |-> "", id |-> 0]
Idle == [pc |-> "idle", login |-> "", password |-> "",
         user |-> NoUser, after |-> "none", overlap |-> {}]
NoResponse == [op |-> "none", status |-> 0, body |-> "", location |-> "",
               setCookies |-> NoCookies, clearCookies |-> {}, why |-> "",
               after |-> "none"]

\* ------------------------------------------------------------ Password Hasher
\* The digest bcrypt computes from a plaintext and a salt: collision-free here.
Digest(password, salt) == <<password, salt>>

\* bcrypt.hash(password, 10): the output embeds its salt and cost.
hashPassword(password, salt) ==
    [salt |-> salt, cost |-> SaltRounds, digest |-> Digest(password, salt)]

\* bcrypt.compare(password, user.password): re-hash with the embedded salt.
comparePasswords(user, password) ==
    Digest(password, user.password.salt) = user.password.digest

\* ------------------------------------------------------------ Token Signer
AccessSecret == "ACCESS_SECRET_TOKEN"
RefreshSecret == "REFRESH_SECRET_TOKEN"

\* Math.floor(Date.now() / 1000): the clock in whole seconds.
ClockSeconds(t) == t \div TicksPerSec

Hmac(secret, payload) == [key |-> secret, msg |-> payload]

\* jwt.sign(payload, secret, {expiresIn}): every field of the payload object is
\* kept, iat is the clock in whole seconds, exp = iat + expiresIn, and the signature
\* covers the whole payload.
JwtSign(userPayload, secret, expiresIn, t) ==
    LET payload == userPayload @@
                   [iat |-> ClockSeconds(t), exp |-> ClockSeconds(t) + expiresIn]
    IN  [payload |-> payload, sig |-> Hmac(secret, payload)]

\* signAccessToken given the refresh token's lifetime.
signAccessToken_LongLived(userPayload, t) ==
    JwtSign(userPayload, AccessSecret, RefreshLifetime, t)

signAccessToken(userPayload, t) == JwtSign(userPayload, AccessSecret, AccessLifetime, t)

\* signRefreshToken signing with the access secret.
signRefreshToken_AccessSecret(userPayload, t) ==
    JwtSign(userPayload, AccessSecret, RefreshLifetime, t)

signRefreshToken(userPayload, t) == JwtSign(userPayload, RefreshSecret, RefreshLifetime, t)

\* verify(token, whichSecret): signature check and expiry check
\* (expired as soon as the clock in whole seconds reaches exp).
JwtVerify(token, secret, t) ==
    /\ token # NoToken
    /\ token.sig = Hmac(secret, token.payload)
    /\ ClockSeconds(t) < token.payload.exp

\* ------------------------------------------------------------ storage
\* User.findOne({ where: { login } })
findUser(login) ==
    IF \E u \in users : u.login = login
    THEN CHOOSE u \in users : u.login = login
    ELSE NoUser

\* The User table's unique key on login.
LoginIsFree(login) == \A u \in users : u.login # login

\* exists(token, userId)
verifyRefreshIsActive(token, user_id) ==
    \E r \in tokens : r.token = token /\ r.user_id = user_id

\* The promise of a storage operation nobody awaits is rejected: the process
\* reports an unhandled rejection, and no handler sees it. status is the status
\* the request that started the operation was answered with.
UnhandledRejection(op) ==
    [NoResponse EXCEPT !.op = "unhandledRejection", !.why = op.kind,
                       !.status = op.answer]

\* User.create(user).save(), executed by the storage layer.
ExecCreateUser(op) ==
    /\ op \in BagToSet(pending) /\ op.kind = "createUser"
    /\ IF LoginIsFree(op.login)
       THEN /\ users' = users \cup {[id |-> nextUserId, login |-> op.login,
                                     password |-> op.password]}
            /\ nextUserId' = nextUserId + 1
            /\ response' = NoResponse
       ELSE /\ UNCHANGED <<users, nextUserId>>
            /\ response' = UnhandledRejection(op)
    /\ pending' = pending (-) SetToBag({op})
    /\ UNCHANGED <<tokens, nextTokenId, handler, now, nreq, nticks, issued,
                   registered, loggedOut, rejections>>

\* Token.create({ token, user_id }).save(), executed by the storage layer.
ExecCreateToken(op) ==
    /\ op \in BagToSet(pending) /\ op.kind = "createToken"
    /\ tokens' = tokens \cup {[id |-> nextTokenId, token |-> op.token,
                               user_id |-> op.user_id, sid |-> op.sid]}
    /\ nextTokenId' = nextTokenId + 1
    /\ pending' = pending (-) SetToBag({op})
    /\ response' = NoResponse
    /\ UNCHANGED <<users, nextUserId, handler, now, nreq, nticks, issued,
                   registered, loggedOut, rejections>>

\* delete(token, userId), executed by the storage layer: removes what matches both.
ExecDeleteToken(op) ==
    /\ op \in BagToSet(pending) /\ op.kind = "deleteToken"
    /\ tokens' = {r \in tokens : ~(r.token = op.token /\ r.user_id = op.user_id)}
    /\ pending' = pending (-) SetToBag({op})
    /\ response' = NoResponse
    /\ UNCHANGED <<users, nextUserId, nextTokenId, handler, now, nreq, nticks,
                   issued, registered, loggedOut, rejections>>

\* A storage operation fails in the storage layer (connection lost, statement
\* refused): it has no effect and its promise is rejected.
ExecFails(op) ==
    /\ op \in BagToSet(pending)
    /\ pending' = pending (-) SetToBag({op})
    /\ response' = UnhandledRejection(op)
    /\ UNCHANGED <<users, nextUserId, tokens, nextTokenId, handler, now, nreq, nticks,
                   issued, registered, loggedOut, rejections>>

\* The operation a service call starts. sid names the session it belongs to: the
\* client whose login inserts the refresh token, or whose cookies a logout presents.
\* after records whether the logout that starts a delete repeats an answered one,
\* answer the status the handler sends in the segment that starts the operation.
PendingOp(kind, sid, login, password, token, user_id, after) ==
    [kind |-> kind, sid |-> sid, login |-> login, password |-> password,
     token |-> token, user_id |-> user_id, after |-> after,
     answer |-> CASE kind = "createUser" -> 201
                  [] kind = "createToken" -> 200
                  [] OTHER -> 200]

createUser(newUser) ==
    PendingOp("createUser", "", newUser.login, newUser.password, NoToken, 0, "none")

\* createToken given the id of another user.
createToken_OtherUser(sid, user_id, token) ==
    PendingOp("createToken", sid, "", NoHash, token, user_id + 1, "none")

createToken(sid, user_id, token) ==
    PendingOp("createToken", sid, "", NoHash, token, user_id, "none")

deleteToken(sid, token, user_id, after) ==
    PendingOp("deleteToken", sid, "", NoHash, token, user_id, after)

\* ------------------------------------------------------------ responses
Respond(op, status, body, location, why, after) ==
    [NoResponse EXCEPT !.op = op, !.status = status, !.body = body,
                       !.location = location, !.why = why, !.after = after]

\* What the caller can observe of a response.
Observable(r) ==
    [status |-> r.status, body |-> r.body, location |-> r.location,
     setCookies |-> r.setCookies, clearCookies |-> r.clearCookies]

\* ------------------------------------------------------------ /register
\* return res.status(422).send(`user already exists`)
RegisterConflict(after) ==
    Respond("register", 422, "user already exists", "", "conflict", after)

\* The register response logging the new user in.
RegisterSuccess_LogsIn(after) ==
    [Respond("register", 201, "", "/login", "ok", after)
        EXCEPT !.setCookies = [NoCookies EXCEPT !.login = "new"]]

\* return res.redirect(201, `/login`)
RegisterSuccess(after) ==
    Respond("register", 201, "", "/login", "ok", after)

\* Whether a register for this login has already been answered with success.
AfterRegister(login) ==
    IF \E r \in registered : r.login = login THEN "registered" ELSE "none"

\* From the request to the await of hashPassword: the lookup by login.
RegisterLookup(c, login, password) ==
    /\ handler[c].pc = "idle"
    /\ nreq < MaxRequests
    /\ nreq' = nreq + 1
    /\ LET user == findUser(login)
           after == AfterRegister(login)
       IN  IF user # NoUser
           THEN /\ response' = RegisterConflict(after)
                /\ UNCHANGED handler
           ELSE /\ response' = NoResponse
                /\ handler' = [handler EXCEPT ![c] =
                      [Idle EXCEPT !.pc = "register_hash",
                                   !.login = login, !.password = password,
                                   !.after = after]]
    /\ UNCHANGED <<users, nextUserId, tokens, nextTokenId, pending, now, nticks,
                   issued, registered, loggedOut, rejections>>

\* The awaited lookup is rejected by the storage layer: the catch block of
\* /register logs the error and sends nothing, so the request gets no response.
RegisterLookupFails(c) ==
    /\ handler[c].pc = "idle"
    /\ nreq < MaxRequests
    /\ nreq' = nreq + 1
    /\ response' = NoResponse
    /\ UNCHANGED <<users, nextUserId, tokens, nextTokenId, pending, handler, now,
                   nticks, issued, registered, loggedOut, rejections>>

\* From the hash to the response: createUser is started, not awaited.
RegisterCreate(c, salt) ==
    /\ handler[c].pc = "register_hash"
    /\ LET h == handler[c]
           newUser == [login |-> h.login, password |-> hashPassword(h.password, salt)]
       IN  /\ pending' = pending (+) SetToBag({createUser(newUser)})
           /\ response' = RegisterSuccess(h.after)
           /\ registered' = registered \cup {[login |-> h.login, password |-> h.password]}
    /\ handler' = [handler EXCEPT ![c] = Idle]
    /\ UNCHANGED <<users, nextUserId, tokens, nextTokenId, now, nreq, nticks,
                   issued, loggedOut, rejections>>

\* ------------------------------------------------------------ /login
\* The unknown-login branch answering with a message of its own.
LoginUnknownUser_NotFound(after) ==
    Respond("login", 404, "user not found", "", "no_user", after)

\* return res.status(400).send(`Login or password incorrect`), when no user is found
LoginUnknownUser(after) ==
    Respond("login", 400, "Login or password incorrect", "", "no_user", after)

\* The wrong-password branch reached after the login cookie was already set.
LoginWrongPassword_SetsCookie(after) ==
    [Respond("login", 400, "Login or password incorrect", "", "bad_password", after)
        EXCEPT !.setCookies = [NoCookies EXCEPT !.login = "set"]]

\* return res.status(400).send(`Login or password incorrect`), when the passwords differ
LoginWrongPassword(after) ==
    Respond("login", 400, "Login or password incorrect", "", "bad_password", after)

\* the four res.cookie calls and res.redirect(200, `/`)
LoginSuccess(cookies, after) ==
    [Respond("login", 200, "", "/", "ok", after) EXCEPT !.setCookies = cookies]

\* The whole User row used as the token payload.
UserPayload_WholeUser(user) == user

\* const userPayload: IUserPayload = { id: user.id, login: user.login }
UserPayload(user) == [id |-> user.id, login |-> user.login]

\* What the register responses so far promise of a login with these credentials.
AfterRegistered(login, password) ==
    IF [login |-> login, password |-> password] \in registered THEN "match"
    ELSE IF \E r \in registered : r.login = login THEN "mismatch"
    ELSE "none"

\* From the request to the await of comparePasswords: the lookup by login.
LoginLookup(c, login, password) ==
    /\ handler[c].pc = "idle"
    /\ nreq < MaxRequests
    /\ nreq' = nreq + 1
    /\ LET user == findUser(login)
           after == AfterRegistered(login, password)
       IN  IF user = NoUser
           THEN /\ response' = LoginUnknownUser(after)
                /\ rejections' = rejections \cup
                      {[why |-> "no_user", obs |-> Observable(LoginUnknownUser(after))]}
                /\ UNCHANGED handler
           ELSE /\ response' = NoResponse
                /\ handler' = [handler EXCEPT ![c] =
                      [Idle EXCEPT !.pc = "login_compare", !.login = login,
                                   !.password = password, !.user = user,
                                   !.after = after]]
                /\ UNCHANGED rejections
    /\ UNCHANGED <<users, nextUserId, tokens, nextTokenId, pending, now, nticks,
                   issued, registered, loggedOut>>

\* res.status(400).send(`unknow error`): the catch block of /login for an error
\* that is not an AppError.
LoginUnknownError ==
    Respond("login", 400, "unknow error", "", "error", "none")

\* The awaited lookup is rejected by the storage layer: the catch block answers.
LoginLookupFails(c) ==
    /\ handler[c].pc = "idle"
    /\ nreq < MaxRequests
    /\ nreq' = nreq + 1
    /\ response' = LoginUnknownError
    /\ UNCHANGED <<users, nextUserId, tokens, nextTokenId, pending, handler, now,
                   nticks, issued, registered, loggedOut, rejections>>

\* From the comparison to the response: the refresh token is signed, createToken is
\* started and not awaited, the access token is signed, the cookies are set.
LoginIssue(c) ==
    /\ handler[c].pc = "login_compare"
    /\ LET h == handler[c]
           user == h.user
           arePasswordsSame == comparePasswords(user, h.password)
           userPayload == UserPayload(user)
           refreshToken == signRefreshToken(userPayload, now)
           accessToken == signAccessToken(userPayload, now)
           cookies == [accessToken |-> accessToken, refreshToken |-> refreshToken,
                       login |-> user.login, id |-> user.id]
       IN  IF ~arePasswordsSame
           THEN /\ response' = LoginWrongPassword(h.after)
                /\ rejections' = rejections \cup
                      {[why |-> "bad_password",
                        obs |-> Observable(LoginWrongPassword(h.after))]}
                /\ UNCHANGED <<pending, issued, loggedOut>>
           ELSE /\ pending' = pending (+) SetToBag({createToken(c, user.id, refreshToken)})
                /\ response' = LoginSuccess(cookies, h.after)
                /\ issued' = issued \cup {[sid |-> c, cookies |-> cookies]}
                /\ loggedOut' = {x \in loggedOut : x.user_id # user.id}
                /\ UNCHANGED rejections
    /\ handler' = [d \in Clients |->
          IF d = c THEN Idle
          ELSE IF /\ handler[d].pc = "login_compare"
                  /\ handler[d].user.id = handler[c].user.id
                  /\ comparePasswords(handler[c].user, handler[c].password)
          THEN [handler[d] EXCEPT !.overlap =
                   @ \cup {signRefreshToken(UserPayload(handler[c].user), now)}]
          ELSE handler[d]]
    /\ UNCHANGED <<users, nextUserId, tokens, nextTokenId, now, nreq, nticks,
                   registered>>

\* ------------------------------------------------------------ /logout
\* The authUser middleware: the access token is verified first; when it is absent
\* or expired the refresh token is verified and looked up in the Session Registry.
authUser(cookies) ==
    IF JwtVerify(cookies.accessToken, AccessSecret, now)
    THEN [auth |-> TRUE, user |-> cookies.accessToken.payload,
          refreshToken |-> cookies.refreshToken]
    ELSE IF /\ JwtVerify(cookies.refreshToken, RefreshSecret, now)
            /\ verifyRefreshIsActive(cookies.refreshToken, cookies.refreshToken.payload.id)
    THEN [auth |-> TRUE, user |-> cookies.refreshToken.payload,
          refreshToken |-> cookies.refreshToken]
    ELSE [auth |-> FALSE, user |-> NoPayload, refreshToken |-> cookies.refreshToken]

\* The unauthenticated branch reached after the cookies were already cleared.
LogoutUnauthorized_Clears(after) ==
    [Respond("logout", 401, "you are not logged in", "", "not_authenticated", after)
        EXCEPT !.clearCookies = {"accessToken", "refreshToken", "id", "login"}]

\* return res.status(401).send(`you are not logged in`)
LogoutUnauthorized(after) ==
    Respond("logout", 401, "you are not logged in", "", "not_authenticated", after)

\* the four clearCookie calls and res.redirect(200, `/`)
LogoutSuccess(after) ==
    [Respond("logout", 200, "", "/", "ok", after)
        EXCEPT !.clearCookies = {"accessToken", "refreshToken", "id", "login"}]

\* The cookies a client can present: the ones a login was sent, the same after the
\* browser dropped the access-token cookie (its maxAge is the shortest), or none.
Sessions == issued \cup {[sid |-> c, cookies |-> NoCookies] : c \in Clients}

Presented(cookies, withAccess) ==
    IF withAccess THEN cookies ELSE [cookies EXCEPT !.accessToken = NoToken]

\* Whether a logout presenting this refresh token has been answered with success.
AfterLogout(token) ==
    IF token # NoToken /\ \E x \in loggedOut : x.token = token
    THEN "loggedOut" ELSE "none"

\* The whole handler (it awaits nothing): deleteToken is started, not awaited.
Logout(c, session, withAccess) ==
    /\ handler[c].pc = "idle"
    /\ nreq < MaxRequests
    /\ nreq' = nreq + 1
    /\ LET cookies == Presented(session.cookies, withAccess)
           locals == authUser(cookies)
           after == AfterLogout(cookies.refreshToken)
       IN  IF ~locals.auth
           THEN /\ response' = LogoutUnauthorized(after)
                /\ UNCHANGED <<pending, handler, loggedOut>>
           ELSE /\ pending' = pending (+) SetToBag(
                      {deleteToken(session.sid, locals.refreshToken, locals.user.id, after)})
                /\ response' = LogoutSuccess(after)
                /\ loggedOut' = loggedOut \cup
                      {[token |-> locals.refreshToken, user_id |-> locals.user.id]}
                /\ handler' = [d \in Clients |->
                      IF handler[d].user # NoUser /\ handler[d].user.id = locals.user.id
                      THEN [handler[d] EXCEPT !.overlap = @ \ {locals.refreshToken}]
                      ELSE handler[d]]
    /\ UNCHANGED <<users, nextUserId, tokens, nextTokenId, now, nticks,
                   issued, registered, rejections>>

\* ------------------------------------------------------------ clock
TickJumps == {1, AccessLifetime * TicksPerSec}

Tick(d) ==
    /\ nticks < MaxTicks
    /\ nticks' = nticks + 1
    /\ now' = now + d
    /\ response' = NoResponse
    /\ UNCHANGED <<users, nextUserId, tokens, nextTokenId, pending, handler, nreq,
                   issued, registered, loggedOut, rejections>>

\* ------------------------------------------------------------ specification
Init ==
    /\ users = {}
    /\ nextUserId = 1
    /\ tokens = {}
    /\ nextTokenId = 1
    /\ pending = EmptyBag
    /\ handler = [c \in Clients |-> Idle]
    /\ response = NoResponse
    /\ now = 0
    /\ nreq = 0
    /\ nticks = 0
    /\ issued = {}
    /\ registered = {}
    /\ loggedOut = {}
    /\ rejections = {}

Next ==
    \/ \E c \in Clients, cr \in Credentials : RegisterLookup(c, cr[1], cr[2])
    \/ \E c \in Clients, s \in Salts : RegisterCreate(c, s)
    \/ \E c \in Clients, cr \in Credentials : LoginLookup(c, cr[1], cr[2])
    \/ \E c \in Clients : LoginIssue(c)
    \/ \E c \in Clients, s \in Sessions, a \in BOOLEAN : Logout(c, s, a)
    \/ \E op \in BagToSet(pending) : ExecCreateUser(op)
    \/ \E op \in BagToSet(pending) : ExecCreateToken(op)
    \/ \E op \in BagToSet(pending) : ExecDeleteToken(op)
    \/ \E d \in TickJumps : Tick(d)

Spec == Init /\ [][Next]_vars

\* The same program on a storage layer whose operations may fail.
NextFaulty ==
    \/ Next
    \/ \E op \in BagToSet(pending) : ExecFails(op)
    \/ \E c \in Clients : RegisterLookupFails(c)
    \/ \E c \in Clients : LoginLookupFails(c)

SpecFaulty == Init /\ [][NextFaulty]_vars

\* ------------------------------------------------------------ the Token Signer alone
\* What login does with the signer: both tokens are signed for one payload at one
\* reading of the clock.
SignTokens(userPayload) ==
    /\ Cardinality(issued) < MaxSigned
    /\ issued' = issued \cup
          {[sid |-> "", cookies |->
              [accessToken |-> signAccessToken(userPayload, now),
               refreshToken |-> signRefreshToken(userPayload, now),
               login |-> userPayload.login, id |-> userPayload.id]]}
    /\ UNCHANGED <<users, nextUserId, tokens, nextTokenId, pending, handler, response,
                   now, nreq, nticks, registered, loggedOut, rejections>>

SignerHorizon == (AccessLifetime + SlackSeconds) * TicksPerSec
SignerJumps == {1, RefreshLifetime * TicksPerSec}

TickSigner(d) ==
    /\ now < SignerHorizon
    /\ now' = now + d
    /\ UNCHANGED <<users, nextUserId, tokens, nextTokenId, pending, handler, response,
                   nreq, nticks, issued, registered, loggedOut, rejections>>

NextSigner ==
    \/ \E p \in Payloads : SignTokens(p)
    \/ \E d \in SignerJumps : TickSigner(d)

SpecSigner == Init /\ [][NextSigner]_vars

\* ------------------------------------------------------------ properties

\* C1: once a logout for (t, u.id) has been answered with success, the Session
\* Registry holds no row (t, u.id), in that state and in every later state in which
\* u has not logged in again.
C1_RevocationDominates ==
    \A x \in loggedOut : ~verifyRefreshIsActive(x.token, x.user_id)

\* C2: in the state in which login answers with success, the Session Registry
\* already holds the row (refreshToken, user.id) of the refresh token it emits.
C2_PersistedBeforeSuccess ==
    (response.op = "login" /\ response.why = "ok") =>
        verifyRefreshIsActive(response.setCookies.refreshToken, response.setCookies.id)

\* C3: a login rejected because the login name is unknown and a login rejected
\* because the password is wrong are answered identically (status, body, redirect,
\* cookies set and cleared).
C3_NoUserEnumeration ==
    \A a, b \in rejections :
        (a.why = "no_user" /\ b.why = "bad_password") => a.obs = b.obs

C3_Witness ==
    /\ \E a \in rejections : a.why = "no_user"
    /\ \E b \in rejections : b.why = "bad_password"

\* C4: a login with an unknown login name or a wrong password is answered 401,
\* never with success.
C4_RejectedLoginIs401 ==
    (response.op = "login" /\ response.why \in {"no_user", "bad_password"}) =>
        response.status = 401

\* C5: a register request for a login whose registration has already been answered
\* with success is rejected with `user already exists` (the answer of the one path
\* that starts no user insert).
C5_ReRegisterConflicts ==
    (response.op = "register" /\ response.after = "registered") =>
        (response.status = 422 /\ response.body = "user already exists")

\* C6: a row of the Session Registry is only ever removed by a logout of the
\* session (the login) that created it: logging out of one session of a user
\* leaves the rows of the user's other sessions in place.
C6_SessionsPerToken ==
    [][\A r \in tokens \ tokens' :
          \E op \in BagToSet(pending) :
              /\ op.kind = "deleteToken"
              /\ pending' = pending (-) SetToBag({op})
              /\ op.sid = r.sid]_vars

\* C7: a login with credentials whose register has been answered with success
\* succeeds, and a login naming a registered login with another password is rejected.
C7_LoginAfterRegister ==
    response.op = "login" =>
        /\ response.after = "match" => response.why = "ok"
        /\ response.after = "mismatch" => response.why # "ok"

\* C8: a logout presenting a refresh token whose logout has already been answered
\* with success is not answered with an error, and it is a no-op: the delete it
\* starts changes nothing in the Session Registry.
C8_LogoutIdempotent ==
    [][/\ (response'.op = "logout" /\ response'.after = "loggedOut") =>
              response'.status = 200
       /\ \A op \in BagToSet(pending) :
              (/\ op.kind = "deleteToken"
               /\ op.after = "loggedOut"
               /\ pending' = pending (-) SetToBag({op})) => tokens' = tokens]_vars

\* C9: a logout by a caller that is not authenticated is answered 401, starts no
\* delete, removes no Session Registry row and clears no cookie.
C9_UnauthenticatedLogoutNoEffect ==
    [][(response'.op = "logout" /\ response'.why = "not_authenticated") =>
          /\ response'.status = 401
          /\ response'.clearCookies = {}
          /\ response'.setCookies = NoCookies
          /\ pending' = pending
          /\ tokens' = tokens]_vars

C9_Witness ==
    /\ response.op = "logout"
    /\ response.why = "not_authenticated"
    /\ tokens # {}

\* C10: at every time from its issued-at second on, an access token verifies exactly
\* while fewer than 10 seconds have passed since that second, and whenever it
\* verifies the refresh token signed with it verifies too.
C10_AccessLifetime ==
    \A s \in issued :
        LET accessToken == s.cookies.accessToken
            refreshToken == s.cookies.refreshToken
        IN  /\ JwtVerify(accessToken, AccessSecret, now) <=>
                  now < (accessToken.payload.iat + 10) * TicksPerSec
            /\ JwtVerify(accessToken, AccessSecret, now) =>
                  JwtVerify(refreshToken, RefreshSecret, now)

C10_Witness ==
    \E s \in issued :
        /\ now >= (s.cookies.accessToken.payload.iat + 10) * TicksPerSec
        /\ ~JwtVerify(s.cookies.accessToken, AccessSecret, now)
        /\ JwtVerify(s.cookies.refreshToken, RefreshSecret, now)

\* C11: a token signed by signAccessToken never verifies against the refresh
\* secret, and a token signed by signRefreshToken never verifies against the access
\* secret, whatever the payload and the time.
C11_ClassesNotInterchangeable ==
    \A s \in issued :
        /\ ~JwtVerify(s.cookies.accessToken, RefreshSecret, now)
        /\ ~JwtVerify(s.cookies.refreshToken, AccessSecret, now)

C11_Witness ==
    \E s \in issued :
        /\ JwtVerify(s.cookies.accessToken, AccessSecret, now)
        /\ JwtVerify(s.cookies.refreshToken, RefreshSecret, now)
        /\ s.cookies.accessToken.payload.iat > 0

\* The refresh-token operations among the pending storage operations.
TokenOps(bag) ==
    [op \in {o \in BagToSet(bag) : o.kind # "createUser"} |-> CopiesIn(op, bag)]

\* C12: a step of the register handler, whether it answers with success or with a
\* rejection or suspends at its await, leaves the Session Registry as it is, starts
\* no insert or delete of a refresh token and sends no token to the caller.
C12_RegisterIssuesNothing ==
    [][(\/ response'.op = "register"
        \/ \E c \in Clients : handler'[c].pc = "register_hash" /\ handler[c].pc = "idle")
       => /\ tokens' = tokens
          /\ TokenOps(pending') = TokenOps(pending)
          /\ issued' = issued
          /\ response'.setCookies = NoCookies]_vars

C12_Witness ==
    /\ response.op = "register"
    /\ response.why = "ok"
    /\ tokens # {}

\* C13: both tokens a login emits embed exactly id and login, of one and the same
\* User row, the one whose login the cookies name, next to iat and exp, and never
\* the password hash.
C13_PayloadIsIdAndLogin ==
    \A s \in issued :
        \A t \in {s.cookies.accessToken, s.cookies.refreshToken} :
            /\ DOMAIN t.payload = {"id", "login", "iat", "exp"}
            /\ t.payload.login = s.cookies.login
            /\ \E u \in users : u.id = t.payload.id /\ u.login = t.payload.login

C13_Witness ==
    \E s, t \in issued : s.cookies.login = "alice" /\ t.cookies.login = "bob"

\* C14: the user store never holds two User rows with one login, and of register
\* requests for one login that overlap in time at most one is answered with
\* success: a register that looked the login up before any success for it was
\* answered is not answered with success once another one has been.
C14_OneRegisterWins ==
    [][/\ \A u, v \in users' : u.login = v.login => u = v
       /\ \A c \in Clients :
              (/\ handler[c].pc = "register_hash"
               /\ handler[c].after = "none"
               /\ handler'[c].pc = "idle"
               /\ response'.why = "ok")
              => ~\E r \in registered : r.login = handler[c].login]_vars

\* C18: a login rejected for an unknown login or a wrong password inserts no
\* Session Registry row, starts no storage operation, signs and emits no token,
\* sets no cookie and leaves the user store as it is.
C18_RejectedLoginNoEffect ==
    [][(response'.op = "login" /\ response'.why \in {"no_user", "bad_password"})
       => /\ tokens' = tokens
          /\ pending' = pending
          /\ users' = users
          /\ issued' = issued
          /\ response'.setCookies = NoCookies
          /\ response'.clearCookies = {}]_vars

C18_Witness ==
    /\ response.op = "login"
    /\ response.why = "bad_password"
    /\ tokens # {}

\* C19: every Session Registry row binds a refresh token that a successful login
\* emitted to the user that login authenticated: user_id is the id in the token's
\* payload and the id of an existing User row with the payload's login.
C19_RegistryConsistent ==
    \A r \in tokens :
        /\ r.user_id = r.token.payload.id
        /\ \E u \in users : u.id = r.user_id /\ u.login = r.token.payload.login
        /\ \E s \in issued : s.cookies.refreshToken = r.token /\ s.cookies.id = r.user_id

C19_Witness ==
    \E r, q \in tokens : r.user_id # q.user_id

\* C15: when a login of a user completes with the right password after another
\* login of the same user completed while it waited, it is answered with success,
\* and the Session Registry then holds a row for its refresh token and for each
\* refresh token emitted to the overlapping logins (none of which a logout has
\* been asked to delete).
C15_ConcurrentLoginsBothRecorded ==
    [][\A c \in Clients :
          (/\ handler[c].pc = "login_compare"
           /\ handler[c].overlap # {}
           /\ comparePasswords(handler[c].user, handler[c].password)
           /\ handler'[c].pc = "idle") =>
              /\ response'.op = "login"
              /\ response'.why = "ok"
              /\ \A t \in handler[c].overlap \cup {response'.setCookies.refreshToken} :
                    \E row \in tokens' :
                        row.token = t /\ row.user_id = handler[c].user.id]_vars

\* C16: a storage operation that fails (the user insert of a register, the
\* refresh-token insert of a login, the refresh-token delete of a logout) never
\* belongs to a request that was answered with the success outcome.
C16_FailureNotMaskedAsSuccess ==
    response.op = "unhandledRejection" =>
        response.status # (CASE response.why = "createUser" ->
                                    RegisterSuccess("none").status
                             [] response.why = "createToken" ->
                                    LoginSuccess(NoCookies, "none").status
                             [] OTHER -> LogoutSuccess("none").status)

\* C17: every step in which a register, login or logout handler finishes (a
\* request handled in one segment, or a suspended handler returning to idle)
\* sends a response, also when the catch block ran.
C17_EveryRequestAnswered ==
    [][(\/ /\ nreq' = nreq + 1
           /\ \A c \in Clients : handler'[c].pc = handler[c].pc
        \/ \E c \in Clients : handler[c].pc # "idle" /\ handler'[c].pc = "idle") =>
              response'.op \in {"register", "login", "logout"}]_vars
====
